---------------------------- MODULE Spec2Model ----------------------------
(***************************************************************************)
(* Model of the batch conversion orchestrator src/pdf_processor.js:        *)
(* the CLI entry, processAllPdfs, processPdf, spawnCommand,                *)
(* processMarkdownFiles and replaceImagePaths, together with the converter *)
(* child process (marker_single) and the output tree it writes to.         *)
(*                                                                         *)
(* File and folder names are sequences of one-character strings, so that   *)
(* path.extname, String.toLowerCase and path.basename are computed as Node *)
(* computes them.                                                          *)
(***************************************************************************)
EXTENDS Integers, Sequences, FiniteSets, TLC

VARIABLES
  argc,          \* process.argv.slice(2).length
  inputDir,      \* "missing" | "dir": what fs.existsSync(absoluteInputDir) sees
  listing,       \* fs.readdirSync(absoluteInputDir), in listing order
  outRoot,       \* whether the output root directory exists
  outTree,       \* folder name -> folder, the subtree under the output root
  run,           \* number of the current run of the orchestrator
  pc,            \* control position of the orchestrator
  pdfFiles,      \* the filtered candidates of this run
  idx,           \* position of the for-loop in pdfFiles (1-based)
  successCount,
  skipCount,
  failCount,
  child,         \* per candidate: state of the converter child process
  promise,       \* per candidate: state of spawnCommand's promise
  closeCode,     \* per candidate: the code the close event delivered
  settles,       \* per candidate: resolve/reject calls that took effect
  result,        \* value processPdf returned to the loop
  thrown,        \* whether the continuation of processPdf runs its catch block
  mdTodo,        \* Markdown files processMarkdownFiles still has to rewrite
  mdFailed,      \* Markdown files whose rewrite failed in this attempt
  exitStatus,    \* "running" | "0" | "1" | "signal": how the orchestrator ended
  summaries,     \* number of summary lines logged in this run
  atReach,       \* per candidate: was the document's folder there when reached
  launches,      \* per candidate: converter launches in this run
  outcome,       \* per candidate: Pending | Skipped | Succeeded | Failed
  wrote,         \* per candidate: the converter wrote its folder
  ioFailed,      \* per candidate: a read, write or deletion call failed
  treeAtReach,   \* outTree when the loop reached the current candidate
  treeAtStart,   \* outTree when the current run started
  killedDocs,    \* PDFs whose conversion an external termination interrupted
  content,       \* replaceImagePaths: the text of the Markdown file
  folderName,    \* replaceImagePaths: its folderName argument
  original,      \* replaceImagePaths: the text the converter wrote
  rwPc,          \* replaceImagePaths: "idle" | "read" | "written" | "failed"
  stPc,          \* streaming: position of processPdf around spawnCommand
  stDoc,         \* streaming: number of the document being converted
  stChild,       \* streaming: state and exit code of the child process
  stPromise,     \* streaming: state of spawnCommand's promise
  emitted,       \* streaming: the chunks the children wrote, in order
  pipe,          \* streaming: per stream, the chunks not yet read
  ended,         \* streaming: per stream, whether its end was seen
  forwarded      \* streaming: the writes on the orchestrator's own streams

vars == <<argc, inputDir, listing, outRoot, outTree, run, pc, pdfFiles, idx,
          successCount, skipCount, failCount, child, promise, closeCode,
          settles, result, thrown, mdTodo, mdFailed, exitStatus, summaries,
          atReach,
          launches, outcome, wrote, ioFailed, treeAtReach, treeAtStart,
          killedDocs, content, folderName, original, rwPc, stPc, stDoc,
          stChild, stPromise, emitted, pipe, ended, forwarded>>

histVars == <<killedDocs>>
rwVars == <<content, folderName, original, rwPc>>
streamVars == <<stPc, stDoc, stChild, stPromise, emitted, pipe, ended,
                forwarded>>
cliVars == <<argc, inputDir, listing, run, treeAtStart, histVars, rwVars,
             streamVars>>
fsVars == <<outRoot, outTree>>
loopVars == <<pdfFiles, idx, successCount, skipCount, failCount>>
childVars == <<child, promise, closeCode, settles>>
docVars == <<atReach, launches, outcome, wrote, ioFailed, treeAtReach>>
mdVars == <<mdTodo, mdFailed>>
stepVars == <<result, thrown, mdVars, exitStatus, summaries>>

---------------------------------------------------------------------------
(* Bounds of the model.                                                    *)

\* Longest directory listing of the input directory.
MaxFiles == 2

\* Number of consecutive runs on the same input and output directory.
MaxRuns == 2

\* Longest Markdown text, in words of the vocabulary MdWords.
MaxWords == 4

\* Most chunks one converter process writes to its two output streams.
MaxChunks == 2

\* Number of converter processes followed chunk by chunk, one after another.
MaxChildren == 2

---------------------------------------------------------------------------
(* Names.                                                                  *)

Str_a_pdf == <<"a", ".", "p", "d", "f">>
Str_b_pdf == <<"b", ".", "p", "d", "f">>
Str_a_PDF == <<"a", ".", "P", "D", "F">>
Str_n_txt == <<"n", ".", "t", "x", "t">>
Str_x_md == <<"x", ".", "m", "d">>
Str_y_MD == <<"y", ".", "M", "D">>
Str_p_jpeg == <<"p", ".", "j", "p", "e", "g">>
DotPdf == <<".", "p", "d", "f">>
DotMd == <<".", "m", "d">>

\* Entries the input directory may hold.
DirEntries == {Str_a_pdf, Str_b_pdf, Str_a_PDF, Str_n_txt}

\* File sets the converter may write into a document's folder.
ConverterOutputs == { {}, {Str_p_jpeg}, {Str_x_md, Str_p_jpeg},
                      {Str_x_md, Str_y_MD} }

SetMax(S) == CHOOSE m \in S : \A k \in S : k <= m

LastDot(s) ==
  LET D == {k \in 1..Len(s) : s[k] = "."}
  IN  IF D = {} THEN 0 ELSE SetMax(D)

\* String.prototype.toLowerCase on the letters the names use.
LowerChar(c) ==
  CASE c = "P" -> "p"
    [] c = "D" -> "d"
    [] c = "F" -> "f"
    [] c = "M" -> "m"
    [] OTHER -> c

toLowerCase(s) == [k \in 1..Len(s) |-> LowerChar(s[k])]

\* path.extname: from the last dot to the end; empty without a dot and for
\* a name whose only dot is its first character.
extname(s) ==
  LET d == LastDot(s)
  IN  IF d <= 1 THEN <<>> ELSE SubSeq(s, d, Len(s))

EndsWith(s, suffix) ==
  /\ Len(suffix) <= Len(s)
  /\ SubSeq(s, Len(s) - Len(suffix) + 1, Len(s)) = suffix

\* path.basename(p, suffix) of a name without separators: the suffix is
\* removed only when the name ends with it character for character.
basename(p, suffix) ==
  IF Len(suffix) > 0 /\ Len(suffix) <= Len(p)
  THEN IF suffix = p THEN <<>>
       ELSE IF EndsWith(p, suffix)
            THEN SubSeq(p, 1, Len(p) - Len(suffix))
            ELSE p
  ELSE p

\* The name processAllPdfs and processPdf use for the output folder.
pdfFileName(pdfFile) == basename(pdfFile, DotPdf)

\* The filter of processAllPdfs.
IsPdf(file) == toLowerCase(extname(file)) = DotPdf

\* The filter of processMarkdownFiles.
IsMd(file) == toLowerCase(extname(file)) = DotMd

\* The document key: the file name without its extension, which is the
\* name of the subfolder the converter creates for the PDF.
DocKey(file) ==
  LET d == LastDot(file)
  IN  IF d <= 1 THEN file ELSE SubSeq(file, 1, d - 1)

\* The folders earlier conversions of the entries may have left.
DocKeys == {DocKey(f) : f \in {e \in DirEntries : IsPdf(e)}}

\* Every folder name the orchestrator or the converter may address.
FolderNames ==
  DocKeys \cup {pdfFileName(f) : f \in {e \in DirEntries : IsPdf(e)}}

RECURSIVE SelectSeqIsPdf(_)
SelectSeqIsPdf(s) ==
  IF s = <<>> THEN <<>>
  ELSE IF IsPdf(Head(s)) THEN <<Head(s)>> \o SelectSeqIsPdf(Tail(s))
       ELSE SelectSeqIsPdf(Tail(s))

---------------------------------------------------------------------------
(* Folders.                                                                *)

NoFiles == [n \in {} |-> 0]

\* No folder of that name under the output root.
Absent == [exists |-> FALSE, complete |-> FALSE, files |-> NoFiles]

\* A folder the converter has started to write: every file unrewritten.
Written(fileSet) ==
  [exists |-> TRUE, complete |-> FALSE, files |-> [n \in fileSet |-> 0]]

\* A folder left by an earlier successful conversion.
Converted ==
  [exists |-> TRUE, complete |-> TRUE,
   files |-> [n \in {Str_x_md, Str_p_jpeg} |-> IF IsMd(n) THEN 1 ELSE 0]]

MdFilesOf(folder) == {n \in DOMAIN folder.files : IsMd(n)}

\* Every Markdown file of the folder has been rewritten.
Rewritten(folder) == \A n \in MdFilesOf(folder) : folder.files[n] >= 1

Cands == 1..Len(pdfFiles)

Slots == 1..MaxFiles

\* The path both processAllPdfs (line 226) and processPdf (line 122) test.
outputFolderPath(i) == pdfFileName(pdfFiles[i])

---------------------------------------------------------------------------
(* The initial states: a command line, an input directory and an output    *)
(* root that may hold folders of earlier conversions.                      *)

Listings ==
  {s \in UNION {[1..n -> DirEntries] : n \in 0..MaxFiles} :
     \A i, j \in 1..Len(s) : i # j => s[i] # s[j]}

FreshMemory ==
  /\ pc = "main"
  /\ pdfFiles = <<>>
  /\ idx = 1
  /\ successCount = 0
  /\ skipCount = 0
  /\ failCount = 0
  /\ child = [i \in Slots |-> "none"]
  /\ promise = [i \in Slots |-> "none"]
  /\ closeCode = [i \in Slots |-> "none"]
  /\ settles = [i \in Slots |-> 0]
  /\ result = FALSE
  /\ thrown = FALSE
  /\ mdTodo = {}
  /\ mdFailed = {}
  /\ exitStatus = "running"
  /\ summaries = 0
  /\ atReach = [i \in Slots |-> "none"]
  /\ launches = [i \in Slots |-> 0]
  /\ outcome = [i \in Slots |-> "Pending"]
  /\ wrote = [i \in Slots |-> FALSE]
  /\ ioFailed = [i \in Slots |-> FALSE]

\* No call of replaceImagePaths is followed character by character.
RewriterIdle ==
  /\ content = <<>>
  /\ folderName = <<>>
  /\ original = <<>>
  /\ rwPc = "idle"

Streams == {"stdout", "stderr"}

\* A child process: "idle" | "running" | "exited" | "closed", and the code
\* it ended with.
ChildIs(state, code) == [state |-> state, code |-> code]

\* No child process is followed chunk by chunk.
StreamsIdle ==
  /\ stPc = "idle"
  /\ stDoc = 0
  /\ stChild = ChildIs("idle", "none")
  /\ stPromise = "none"
  /\ emitted = <<>>
  /\ pipe = [s \in Streams |-> <<>>]
  /\ ended = [s \in Streams |-> FALSE]
  /\ forwarded = <<>>

Init ==
  /\ RewriterIdle
  /\ StreamsIdle
  /\ argc \in 0..2
  /\ inputDir \in {"missing", "dir"}
  /\ listing \in Listings
  /\ inputDir = "missing" => listing = <<>>
  /\ outRoot \in BOOLEAN
  /\ outTree \in [FolderNames -> {Absent, Converted}]
  /\ \A f \in FolderNames \ DocKeys : outTree[f] = Absent
  /\ ~outRoot => \A f \in FolderNames : outTree[f] = Absent
  /\ run = 1
  /\ treeAtReach = outTree
  /\ treeAtStart = outTree
  /\ killedDocs = {}
  /\ FreshMemory

---------------------------------------------------------------------------
(* The CLI entry and processAllPdfs up to the loop.                        *)

\* Lines 251-261: fewer than two arguments print the usage and exit with
\* status 1; otherwise processAllPdfs is called.
Main ==
  /\ pc = "main"
  /\ IF argc < 2
     THEN pc' = "exited" /\ exitStatus' = "1"
     ELSE pc' = "processAllPdfs" /\ UNCHANGED exitStatus
  /\ UNCHANGED <<cliVars, fsVars, loopVars, childVars, docVars, result,
                 thrown, mdVars, summaries>>

\* A missing input directory that aborts with process.exit(1).
CheckInputDirExit ==
  /\ pc = "processAllPdfs"
  /\ IF inputDir = "missing"
     THEN pc' = "exited" /\ exitStatus' = "1"
     ELSE pc' = "ensureOutputDir" /\ UNCHANGED exitStatus
  /\ UNCHANGED <<cliVars, fsVars, loopVars, childVars, docVars, result,
                 thrown, mdVars, summaries>>

\* Lines 192-196: a missing input directory is logged and processAllPdfs
\* returns.
CheckInputDir ==
  /\ pc = "processAllPdfs"
  /\ pc' = IF inputDir = "missing" THEN "returned" ELSE "ensureOutputDir"
  /\ UNCHANGED <<cliVars, fsVars, loopVars, childVars, docVars, stepVars>>

\* Lines 198-202: the output root is created when it is absent.
EnsureOutputDir ==
  /\ pc = "ensureOutputDir"
  /\ outRoot' = TRUE
  /\ pc' = "readdir"
  /\ UNCHANGED <<cliVars, outTree, loopVars, childVars, docVars, stepVars>>

\* Lines 204-220: the listing is filtered; without a candidate
\* processAllPdfs returns, otherwise the counters start at 0.
ListPdfFiles ==
  /\ pc = "readdir"
  /\ pdfFiles' = SelectSeqIsPdf(listing)
  /\ pc' = IF Len(pdfFiles') = 0 THEN "returned" ELSE "loop"
  /\ idx' = 1
  /\ successCount' = 0
  /\ skipCount' = 0
  /\ failCount' = 0
  /\ UNCHANGED <<cliVars, fsVars, childVars, docVars, stepVars>>

---------------------------------------------------------------------------
(* The loop of processAllPdfs.                                             *)

ReachRecord(i) ==
  [atReach EXCEPT ![i] =
     IF outTree[DocKey(pdfFiles[i])].exists THEN "present" ELSE "absent"]

\* A loop that rewrites the Markdown files of a folder it finds.
LoopSkipRewriting ==
  /\ pc = "loop"
  /\ idx <= Len(pdfFiles)
  /\ outTree[outputFolderPath(idx)].exists
  /\ pc' = "processMarkdownFiles"
  /\ atReach' = ReachRecord(idx)
  /\ treeAtReach' = outTree
  /\ UNCHANGED <<cliVars, fsVars, loopVars, childVars, launches, outcome,
                 wrote, ioFailed, stepVars>>

\* Lines 223-233: the folder of the candidate exists; it is skipped.
LoopSkip ==
  /\ pc = "loop"
  /\ idx <= Len(pdfFiles)
  /\ outTree[outputFolderPath(idx)].exists
  /\ skipCount' = skipCount + 1
  /\ idx' = idx + 1
  /\ atReach' = ReachRecord(idx)
  /\ outcome' = [outcome EXCEPT ![idx] = "Skipped"]
  /\ treeAtReach' = outTree
  /\ UNCHANGED <<cliVars, fsVars, pc, pdfFiles, successCount, failCount,
                 childVars, launches, wrote, ioFailed, stepVars>>

\* A loop that calls processPdf without testing the folder itself.
LoopCallUnchecked ==
  /\ pc = "loop"
  /\ idx <= Len(pdfFiles)
  /\ pc' = "processPdf"
  /\ atReach' = ReachRecord(idx)
  /\ treeAtReach' = outTree
  /\ UNCHANGED <<cliVars, fsVars, loopVars, childVars, launches, outcome,
                 wrote, ioFailed, stepVars>>

\* Lines 223-235: the folder is absent; processPdf is called.
LoopCall ==
  /\ pc = "loop"
  /\ idx <= Len(pdfFiles)
  /\ ~outTree[outputFolderPath(idx)].exists
  /\ pc' = "processPdf"
  /\ atReach' = ReachRecord(idx)
  /\ treeAtReach' = outTree
  /\ UNCHANGED <<cliVars, fsVars, loopVars, childVars, launches, outcome,
                 wrote, ioFailed, stepVars>>

\* Lines 243-244: after the last candidate the summary line is logged.
LoopEnd ==
  /\ pc = "loop"
  /\ idx > Len(pdfFiles)
  /\ summaries' = summaries + 1
  /\ pc' = "returned"
  /\ UNCHANGED <<cliVars, fsVars, loopVars, childVars, docVars, result,
                 thrown, mdVars, exitStatus>>

\* A loop that logs the summary line after every document it has counted.
TallyReporting ==
  /\ pc = "tally"
  /\ IF result
     THEN /\ successCount' = successCount + 1
          /\ outcome' = [outcome EXCEPT ![idx] = "Succeeded"]
          /\ UNCHANGED failCount
     ELSE /\ failCount' = failCount + 1
          /\ outcome' = [outcome EXCEPT ![idx] = "Failed"]
          /\ UNCHANGED successCount
  /\ idx' = idx + 1
  /\ pc' = "loop"
  /\ result' = FALSE
  /\ mdFailed' = {}
  /\ summaries' = 1
  /\ UNCHANGED <<cliVars, fsVars, pdfFiles, skipCount, childVars, atReach,
                 launches, wrote, ioFailed, treeAtReach, thrown, mdTodo,
                 exitStatus>>

\* Lines 236-240: the value processPdf resolved to is counted.
Tally ==
  /\ pc = "tally"
  /\ IF result
     THEN /\ successCount' = successCount + 1
          /\ outcome' = [outcome EXCEPT ![idx] = "Succeeded"]
          /\ UNCHANGED failCount
     ELSE /\ failCount' = failCount + 1
          /\ outcome' = [outcome EXCEPT ![idx] = "Failed"]
          /\ UNCHANGED successCount
  /\ idx' = idx + 1
  /\ pc' = "loop"
  /\ result' = FALSE
  /\ mdFailed' = {}
  /\ UNCHANGED <<cliVars, fsVars, pdfFiles, skipCount, childVars, atReach,
                 launches, wrote, ioFailed, treeAtReach, thrown, mdTodo,
                 exitStatus, summaries>>

---------------------------------------------------------------------------
(* spawnCommand and the converter child process.                           *)

\* Codes a close event delivers: an exit code, null for a child killed by a
\* signal, and the negative errno after a failed launch.
ExitCodes == {"0", "1", "null"}
SpawnErrno == "-2"

\* resolve and reject of a promise that overwrite a settled result.
SettleOverwrite(p, v) == v

\* Line 12: resolve and reject act on a pending promise only.
Settle(p, v) == IF p = "pending" THEN v ELSE p

\* Lines 28-35: the close handler resolves true for code 0, false otherwise.
OnClose(i, code) ==
  LET v == Settle(promise[i], IF code = "0" THEN "true" ELSE "false")
  IN  /\ promise' = [promise EXCEPT ![i] = v]
      /\ settles' = [settles EXCEPT ![i] = @ + (IF v # promise[i] THEN 1 ELSE 0)]
      /\ closeCode' = [closeCode EXCEPT ![i] = code]
      /\ child' = [child EXCEPT ![i] = "closed"]

\* Lines 118-142 and 11-26: processPdf tests the folder again and returns
\* true when it exists; otherwise spawnCommand launches the converter, which
\* starts or fails to start.
ProcessPdf ==
  /\ pc = "processPdf"
  /\ IF outTree[outputFolderPath(idx)].exists
     THEN /\ result' = TRUE
          /\ pc' = "tally"
          /\ UNCHANGED <<childVars, launches>>
     ELSE /\ \E started \in BOOLEAN :
               child' = [child EXCEPT ![idx] =
                           IF started THEN "running" ELSE "spawnFailed"]
          /\ promise' = [promise EXCEPT ![idx] = "pending"]
          /\ launches' = [launches EXCEPT ![idx] = @ + 1]
          /\ pc' = "awaitSpawn"
          /\ UNCHANGED <<closeCode, settles, result>>
  /\ UNCHANGED <<cliVars, fsVars, loopVars, atReach, outcome, wrote,
                 ioFailed, treeAtReach, thrown, mdVars, exitStatus,
                 summaries>>

\* The converter creates the subfolder named after the PDF's base name and
\* writes its files into it.
ConverterWrite(i) ==
  /\ child[i] = "running"
  /\ ~wrote[i]
  /\ \E out \in ConverterOutputs :
       outTree' = [outTree EXCEPT ![DocKey(pdfFiles[i])] = Written(out)]
  /\ wrote' = [wrote EXCEPT ![i] = TRUE]
  /\ UNCHANGED <<cliVars, outRoot, pc, loopVars, childVars, atReach,
                 launches, outcome, ioFailed, treeAtReach, stepVars>>

\* Lines 28-35: the child closes; with exit code 0 what it wrote is its
\* whole output.
ChildClose(i) ==
  /\ child[i] = "running"
  /\ \E code \in ExitCodes :
       /\ OnClose(i, code)
       /\ outTree' =
            IF code = "0" /\ wrote[i]
            THEN [outTree EXCEPT ![DocKey(pdfFiles[i])].complete = TRUE]
            ELSE outTree
  /\ UNCHANGED <<cliVars, outRoot, pc, loopVars, docVars, stepVars>>

\* Lines 38-41: the launch failed; the error handler rejects.
ChildError(i) ==
  /\ child[i] = "spawnFailed"
  /\ LET v == Settle(promise[i], "rejected")
     IN  /\ promise' = [promise EXCEPT ![i] = v]
         /\ settles' = [settles EXCEPT ![i] = @ + (IF v # promise[i] THEN 1 ELSE 0)]
  /\ child' = [child EXCEPT ![i] = "errored"]
  /\ UNCHANGED <<cliVars, fsVars, pc, loopVars, closeCode, docVars, stepVars>>

\* Lines 28-35: Node emits close after the error of a failed launch, with
\* the negative errno as the code.
ChildCloseAfterError(i) ==
  /\ child[i] = "errored"
  /\ OnClose(i, SpawnErrno)
  /\ UNCHANGED <<cliVars, fsVars, pc, loopVars, docVars, stepVars>>

---------------------------------------------------------------------------
(* processPdf after the await, processMarkdownFiles, replaceImagePaths.    *)

\* A call of spawnCommand that is not awaited.
NotAwaited(p) == TRUE

\* Line 138: processPdf continues once the promise is settled.
Awaited(p) == p \in {"true", "false", "rejected"}

\* A processPdf without its try/catch.
NoTryCatch == FALSE

\* Lines 130 and 165: the await is inside a try block with a catch.
TryCatch == TRUE

\* Lines 138-146, 157-161, 165-167: a rejection enters the catch block,
\* false the failure branch, anything else the success branch. A rejection
\* that is not caught leaves processPdf and ends in the catch of
\* processAllPdfs (lines 245-247).
ResumeAfterSpawn ==
  /\ pc = "awaitSpawn"
  /\ Awaited(promise[idx])
  /\ IF promise[idx] = "rejected"
     THEN IF TryCatch
          THEN thrown' = TRUE /\ pc' = "cleanup"
          ELSE thrown' = FALSE /\ pc' = "returned"
     ELSE /\ thrown' = FALSE
          /\ pc' = IF promise[idx] = "false"
                   THEN "cleanup" ELSE "processMarkdownFiles"
  /\ UNCHANGED <<cliVars, fsVars, loopVars, childVars, docVars, result,
                 mdVars, exitStatus, summaries>>

\* A cleanup that removes the output root with everything under it.
CleanupOutputRoot ==
  /\ pc = "cleanup"
  /\ outTree' = [f \in FolderNames |-> Absent]
  /\ UNCHANGED ioFailed
  /\ result' = FALSE
  /\ thrown' = FALSE
  /\ pc' = "tally"
  /\ UNCHANGED <<cliVars, outRoot, loopVars, childVars, atReach, launches,
                 outcome, wrote, treeAtReach, mdVars, exitStatus, summaries>>

\* Lines 148-156 and 169-177: the folder, when it exists, is deleted
\* recursively; a deletion that fails is logged. processPdf returns false.
Cleanup ==
  /\ pc = "cleanup"
  /\ IF outTree[outputFolderPath(idx)].exists
     THEN \E deleted \in BOOLEAN :
            /\ outTree' = IF deleted
                          THEN [outTree EXCEPT ![outputFolderPath(idx)] = Absent]
                          ELSE outTree
            /\ ioFailed' = [ioFailed EXCEPT ![idx] = @ \/ ~deleted]
     ELSE UNCHANGED <<outTree, ioFailed>>
  /\ result' = FALSE
  /\ thrown' = FALSE
  /\ pc' = "tally"
  /\ UNCHANGED <<cliVars, outRoot, loopVars, childVars, atReach, launches,
                 outcome, wrote, treeAtReach, mdVars, exitStatus, summaries>>

\* A filter that compares the extension as it is written.
mdFilesCaseSensitive(folder) ==
  {n \in DOMAIN folder.files : extname(n) = DotMd}

\* Line 89: the Markdown files directly inside the folder.
mdFiles(folder) == {n \in DOMAIN folder.files : IsMd(n)}

\* Lines 77-96 and 161-163: a missing folder makes processMarkdownFiles
\* return false; otherwise its Markdown files are listed. processPdf returns
\* true whatever processMarkdownFiles returns.
ProcessMarkdownFiles ==
  /\ pc = "processMarkdownFiles"
  /\ mdTodo' = IF ~outTree[outputFolderPath(idx)].exists
               THEN {}
               ELSE mdFiles(outTree[outputFolderPath(idx)])
  /\ mdFailed' = {}
  /\ result' = TRUE
  /\ pc' = IF mdTodo' = {} THEN "tally" ELSE "replaceImagePaths"
  /\ UNCHANGED <<cliVars, fsVars, loopVars, childVars, docVars, thrown,
                 exitStatus, summaries>>

\* A replaceImagePaths without its try/catch: the first read or write that
\* fails ends the loop of processMarkdownFiles.
ReplaceImagePathsThrowing ==
  /\ pc = "replaceImagePaths"
  /\ \E md \in mdTodo, written \in BOOLEAN :
       /\ outTree' =
            IF written
            THEN [outTree EXCEPT ![outputFolderPath(idx)].files[md] = @ + 1]
            ELSE outTree
       /\ ioFailed' = [ioFailed EXCEPT ![idx] = @ \/ ~written]
       /\ mdFailed' = IF written THEN mdFailed ELSE mdFailed \cup {md}
       /\ mdTodo' = IF written THEN mdTodo \ {md} ELSE {}
  /\ pc' = IF mdTodo' = {} THEN "tally" ELSE "replaceImagePaths"
  /\ UNCHANGED <<cliVars, outRoot, loopVars, childVars, atReach, launches,
                 outcome, wrote, treeAtReach, result, thrown, exitStatus,
                 summaries>>

\* Lines 52-69 and 99-102: one Markdown file is read, rewritten and written
\* back; a read or write that fails is caught inside replaceImagePaths,
\* logged, and leaves the file as it was; the loop goes on with the next
\* file.
ReplaceImagePaths ==
  /\ pc = "replaceImagePaths"
  /\ \E md \in mdTodo, written \in BOOLEAN :
       /\ outTree' =
            IF written
            THEN [outTree EXCEPT ![outputFolderPath(idx)].files[md] = @ + 1]
            ELSE outTree
       /\ ioFailed' = [ioFailed EXCEPT ![idx] = @ \/ ~written]
       /\ mdFailed' = IF written THEN mdFailed ELSE mdFailed \cup {md}
       /\ mdTodo' = mdTodo \ {md}
  /\ pc' = IF mdTodo' = {} THEN "tally" ELSE "replaceImagePaths"
  /\ UNCHANGED <<cliVars, outRoot, loopVars, childVars, atReach, launches,
                 outcome, wrote, treeAtReach, result, thrown, exitStatus,
                 summaries>>

---------------------------------------------------------------------------
(* The end of a run and the next run.                                      *)

\* processAllPdfs has returned and no child process or event of one is
\* pending: the process exits with status 0.
ProcessExit ==
  /\ pc = "returned"
  /\ \A i \in Slots : child[i] \in {"none", "closed"}
  /\ exitStatus' = "0"
  /\ pc' = "exited"
  /\ UNCHANGED <<cliVars, fsVars, loopVars, childVars, docVars, result,
                 thrown, mdVars, summaries>>

\* Positions of a run at which processAllPdfs is active.
Running ==
  {"processAllPdfs", "ensureOutputDir", "readdir", "loop", "processPdf",
   "awaitSpawn", "cleanup", "processMarkdownFiles", "replaceImagePaths",
   "tally", "returned"}

\* The orchestrator is terminated from outside (a signal, a crash of the
\* machine) together with the converter it is waiting for: no handler runs,
\* the memory of the process is lost, and the output tree stays as it is at
\* that moment.
Terminate ==
  /\ pc \in Running
  /\ pc' = "killed"
  /\ exitStatus' = "signal"
  /\ killedDocs' =
       killedDocs \cup
         (IF pc = "awaitSpawn" /\ child[idx] = "running" /\ wrote[idx]
          THEN {pdfFiles[idx]} ELSE {})
  /\ pdfFiles' = <<>>
  /\ idx' = 1
  /\ successCount' = 0
  /\ skipCount' = 0
  /\ failCount' = 0
  /\ child' = [i \in Slots |-> "none"]
  /\ promise' = [i \in Slots |-> "none"]
  /\ closeCode' = [i \in Slots |-> "none"]
  /\ settles' = [i \in Slots |-> 0]
  /\ result' = FALSE
  /\ thrown' = FALSE
  /\ mdTodo' = {}
  /\ mdFailed' = {}
  /\ summaries' = 0
  /\ atReach' = [i \in Slots |-> "none"]
  /\ launches' = [i \in Slots |-> 0]
  /\ outcome' = [i \in Slots |-> "Pending"]
  /\ wrote' = [i \in Slots |-> FALSE]
  /\ ioFailed' = [i \in Slots |-> FALSE]
  /\ treeAtReach' = outTree
  /\ UNCHANGED <<argc, inputDir, listing, run, treeAtStart, fsVars, rwVars,
                 streamVars>>

\* The orchestrator is started again with the same arguments on the same
\* directories.
NextRun ==
  /\ pc \in {"exited", "killed"}
  /\ run < MaxRuns
  /\ run' = run + 1
  /\ treeAtStart' = outTree
  /\ treeAtReach' = outTree
  /\ pc' = "main"
  /\ pdfFiles' = <<>>
  /\ idx' = 1
  /\ successCount' = 0
  /\ skipCount' = 0
  /\ failCount' = 0
  /\ child' = [i \in Slots |-> "none"]
  /\ promise' = [i \in Slots |-> "none"]
  /\ closeCode' = [i \in Slots |-> "none"]
  /\ settles' = [i \in Slots |-> 0]
  /\ result' = FALSE
  /\ thrown' = FALSE
  /\ mdTodo' = {}
  /\ mdFailed' = {}
  /\ exitStatus' = "running"
  /\ summaries' = 0
  /\ atReach' = [i \in Slots |-> "none"]
  /\ launches' = [i \in Slots |-> 0]
  /\ outcome' = [i \in Slots |-> "Pending"]
  /\ wrote' = [i \in Slots |-> FALSE]
  /\ ioFailed' = [i \in Slots |-> FALSE]
  /\ UNCHANGED <<argc, inputDir, listing, fsVars, histVars, rwVars,
                 streamVars>>

Next ==
  \/ Main
  \/ CheckInputDir
  \/ EnsureOutputDir
  \/ ListPdfFiles
  \/ LoopSkip
  \/ LoopCall
  \/ LoopEnd
  \/ ProcessPdf
  \/ \E i \in Slots : ConverterWrite(i)
  \/ \E i \in Slots : ChildClose(i)
  \/ \E i \in Slots : ChildError(i)
  \/ \E i \in Slots : ChildCloseAfterError(i)
  \/ ResumeAfterSpawn
  \/ Cleanup
  \/ ProcessMarkdownFiles
  \/ ReplaceImagePaths
  \/ Tally
  \/ ProcessExit
  \/ NextRun

Spec == Init /\ [][Next]_vars

\* The steps of the orchestrator in one run: the continuations Node's event
\* loop runs as soon as they are ready.
OrchestratorStep ==
  \/ Main
  \/ CheckInputDir
  \/ EnsureOutputDir
  \/ ListPdfFiles
  \/ LoopSkip
  \/ LoopCall
  \/ LoopEnd
  \/ ProcessPdf
  \/ ResumeAfterSpawn
  \/ Cleanup
  \/ ProcessMarkdownFiles
  \/ ReplaceImagePaths
  \/ Tally
  \/ ProcessExit

\* The events of a launched converter: it closes, or its launch fails.
ChildEvent ==
  \/ \E i \in Slots : ChildClose(i)
  \/ \E i \in Slots : ChildError(i)
  \/ \E i \in Slots : ChildCloseAfterError(i)

LiveNext ==
  \/ OrchestratorStep
  \/ ChildEvent
  \/ \E i \in Slots : ConverterWrite(i)

\* One run in which every continuation that is ready is run and every
\* launched converter eventually closes or fails to launch.
LiveSpec ==
  /\ Init
  /\ [][LiveNext]_vars
  /\ WF_vars(OrchestratorStep)
  /\ WF_vars(ChildEvent)

\* The runs of the orchestrator when any of them may be terminated from
\* outside.
InterruptNext == Next \/ Terminate

InterruptSpec == Init /\ [][InterruptNext]_vars

---------------------------------------------------------------------------
(* replaceImagePaths followed character by character.                      *)

UnderPage == <<"_", "p", "a", "g", "e">>
DotJpeg == <<".", "j", "p", "e", "g">>
CloseParen == ")"

\* The literal part of the replacement: http://localhost:3000/
UrlBase ==
  <<"h", "t", "t", "p", ":", "/", "/", "l", "o", "c", "a", "l", "h", "o",
    "s", "t", ":", "3", "0", "0", "0", "/">>

\* Pieces of Markdown text the converter may write.
MdWords ==
  { UnderPage \o <<"_", "3">> \o DotJpeg,
    UnderPage,
    DotJpeg,
    <<CloseParen>>,
    <<"!", "[", "a", "]", "(">>,
    <<"c", ".", "p", "n", "g">> }

RECURSIVE Concat(_)
Concat(ws) == IF ws = <<>> THEN <<>> ELSE Head(ws) \o Concat(Tail(ws))

\* The Markdown texts: every sequence of at most MaxWords words.
MdTexts ==
  {Concat(ws) : ws \in UNION {[1..n -> MdWords] : n \in 0..MaxWords}}

\* The text has the literal w at position i.
IsAt(t, i, w) ==
  /\ i + Len(w) - 1 <= Len(t)
  /\ SubSeq(t, i, i + Len(w) - 1) = w

\* The positions at which a match that starts with _page at position i can
\* end: the last character of a .jpeg that follows at least one character,
\* none of the characters in between being a closing parenthesis.
MatchEnds(t, i) ==
  IF ~IsAt(t, i, UnderPage) THEN {}
  ELSE {j + Len(DotJpeg) - 1 :
          j \in {k \in (i + Len(UnderPage) + 1)..Len(t) :
                   /\ IsAt(t, k, DotJpeg)
                   /\ \A m \in (i + Len(UnderPage))..(k - 1) :
                        t[m] # CloseParen}}

\* Line 58: [^)]+ is greedy, the match runs to the last .jpeg it can
\* reach; 0 without a match.
MatchEnd(t, i) ==
  IF MatchEnds(t, i) = {} THEN 0 ELSE SetMax(MatchEnds(t, i))

\* Line 59: the replacement of one match.
Replacement(key, match) == UrlBase \o key \o <<"/">> \o match

\* Line 59: String.prototype.replace with the global pattern: matches are
\* taken from left to right, each search starting after the last match.
RECURSIVE ReplaceFrom(_, _, _)
ReplaceFrom(t, i, key) ==
  IF i > Len(t) THEN <<>>
  ELSE LET e == MatchEnd(t, i)
       IN  IF e > 0
           THEN Replacement(key, SubSeq(t, i, e)) \o ReplaceFrom(t, e + 1, key)
           ELSE <<t[i]>> \o ReplaceFrom(t, i + 1, key)

replace(t, key) == ReplaceFrom(t, 1, key)

\* The orchestrator itself stands still: two arguments, an empty input
\* directory, an empty output root.
BatchIdle ==
  /\ argc = 2
  /\ inputDir = "dir"
  /\ listing = <<>>
  /\ outRoot = TRUE
  /\ outTree = [f \in FolderNames |-> Absent]
  /\ run = 1
  /\ treeAtReach = outTree
  /\ treeAtStart = outTree
  /\ killedDocs = {}
  /\ FreshMemory

\* Line 55: the file is read; its text and the folder name are the inputs.
RewriteInit ==
  /\ BatchIdle
  /\ StreamsIdle
  /\ content \in MdTexts
  /\ folderName \in FolderNames
  /\ original = content
  /\ rwPc = "read"

\* Lines 58-64: the text is replaced and written back.
ReplaceAndWrite ==
  /\ rwPc = "read"
  /\ content' = replace(content, folderName)
  /\ rwPc' = "written"
  /\ UNCHANGED <<folderName, original>>
  /\ UNCHANGED <<argc, inputDir, listing, run, treeAtStart, histVars,
                 streamVars, fsVars, loopVars, childVars, docVars, stepVars,
                 pc>>

\* Lines 65-68: the write fails; the file keeps its text.
WriteFails ==
  /\ rwPc = "read"
  /\ rwPc' = "failed"
  /\ UNCHANGED <<content, folderName, original>>
  /\ UNCHANGED <<argc, inputDir, listing, run, treeAtStart, histVars,
                 streamVars, fsVars, loopVars, childVars, docVars, stepVars,
                 pc>>

RewriteNext == ReplaceAndWrite \/ WriteFails

RewriteSpec == RewriteInit /\ [][RewriteNext]_vars

---------------------------------------------------------------------------
(* spawnCommand followed chunk by chunk: the converter writes to its stdout *)
(* and stderr, two pipes the orchestrator reads through data events.       *)

\* Everything of the batch that stands still while the streams are followed.
batchVars ==
  <<argc, inputDir, listing, run, treeAtStart, histVars, rwVars, fsVars,
    loopVars, childVars, docVars, stepVars, pc>>

\* The chunks the converter of document d has written so far.
ChunksOf(d) == {k \in 1..Len(emitted) : emitted[k].doc = d}

\* Lines 137-142: processPdf is about to call spawnCommand for a document.
StreamInit ==
  /\ BatchIdle
  /\ RewriterIdle
  /\ stPc = "spawn"
  /\ stDoc = 1
  /\ stChild = ChildIs("idle", "none")
  /\ stPromise = "none"
  /\ emitted = <<>>
  /\ pipe = [s \in Streams |-> <<>>]
  /\ ended = [s \in Streams |-> FALSE]
  /\ forwarded = <<>>

\* Lines 12-15: the promise is created and the child is spawned, with a
\* pipe for each of its output streams.
StreamSpawn ==
  /\ stPc = "spawn"
  /\ stChild' = ChildIs("running", "none")
  /\ stPromise' = "pending"
  /\ pipe' = [s \in Streams |-> <<>>]
  /\ ended' = [s \in Streams |-> FALSE]
  /\ stPc' = "await"
  /\ UNCHANGED <<stDoc, emitted, forwarded, batchVars>>

\* The converter writes a chunk to one of its output streams.
ChildWrite(s) ==
  /\ stChild.state = "running"
  /\ Cardinality(ChunksOf(stDoc)) < MaxChunks
  /\ LET chunk == [doc |-> stDoc, n |-> Len(emitted) + 1, stream |-> s]
     IN  /\ emitted' = Append(emitted, chunk)
         /\ pipe' = [pipe EXCEPT ![s] = Append(@, chunk)]
  /\ UNCHANGED <<stPc, stDoc, stChild, stPromise, ended, forwarded,
                 batchVars>>

\* The converter process ends; what it wrote stays in the pipes.
ChildExit ==
  /\ stChild.state = "running"
  /\ \E code \in ExitCodes : stChild' = ChildIs("exited", code)
  /\ UNCHANGED <<stPc, stDoc, stPromise, emitted, pipe, ended, forwarded,
                 batchVars>>

\* A data handler that writes to process.stdout whatever the stream.
OnDataToStdout(s) ==
  /\ pipe[s] # <<>>
  /\ forwarded' = Append(forwarded, [chunk |-> Head(pipe[s]), to |-> "stdout"])
  /\ pipe' = [pipe EXCEPT ![s] = Tail(@)]
  /\ UNCHANGED <<stPc, stDoc, stChild, stPromise, emitted, ended, batchVars>>

\* Lines 18-20 and 23-25: the data event of a stream hands over the next
\* chunk of its pipe; the handler writes it to the orchestrator's stream of
\* the same name.
OnData(s) ==
  /\ pipe[s] # <<>>
  /\ forwarded' = Append(forwarded, [chunk |-> Head(pipe[s]), to |-> s])
  /\ pipe' = [pipe EXCEPT ![s] = Tail(@)]
  /\ UNCHANGED <<stPc, stDoc, stChild, stPromise, emitted, ended, batchVars>>

\* The end of a stream: the child has ended and the pipe is read empty.
StreamEnd(s) ==
  /\ stChild.state \in {"exited", "closed"}
  /\ pipe[s] = <<>>
  /\ ~ended[s]
  /\ ended' = [ended EXCEPT ![s] = TRUE]
  /\ UNCHANGED <<stPc, stDoc, stChild, stPromise, emitted, pipe, forwarded,
                 batchVars>>

\* The exit event, which does not wait for the streams: the child process
\* has ended.
ExitEvent == stChild.state = "exited"

\* Line 28: the close event: the child process has ended and both of its
\* output streams have ended.
CloseEvent == stChild.state = "exited" /\ \A s \in Streams : ended[s]

\* Lines 28-35: the handler of the close event settles the promise.
StreamClose ==
  /\ CloseEvent
  /\ stPromise' = Settle(stPromise,
                         IF stChild.code = "0" THEN "true" ELSE "false")
  /\ stChild' = ChildIs("closed", stChild.code)
  /\ UNCHANGED <<stPc, stDoc, emitted, pipe, ended, forwarded, batchVars>>

\* Lines 138-164: processPdf continues after the await, with the cleanup or
\* with the rewriting of the Markdown files.
StreamResume ==
  /\ stPc = "await"
  /\ Awaited(stPromise)
  /\ stPc' = "after"
  /\ UNCHANGED <<stDoc, stChild, stPromise, emitted, pipe, ended, forwarded,
                 batchVars>>

\* Lines 223-235: the loop goes on to the next document.
StreamNextDocument ==
  /\ stPc = "after"
  /\ stDoc < MaxChildren
  /\ stDoc' = stDoc + 1
  /\ stPc' = "spawn"
  /\ UNCHANGED <<stChild, stPromise, emitted, pipe, ended, forwarded,
                 batchVars>>

StreamNext ==
  \/ StreamSpawn
  \/ \E s \in Streams : ChildWrite(s)
  \/ ChildExit
  \/ \E s \in Streams : OnData(s)
  \/ \E s \in Streams : StreamEnd(s)
  \/ StreamClose
  \/ StreamResume
  \/ StreamNextDocument

StreamSpec == StreamInit /\ [][StreamNext]_vars

---------------------------------------------------------------------------
(* Properties.                                                             *)

\* The folder of candidate i under its document key.
DocFolder(i) == outTree[DocKey(pdfFiles[i])]

\* The run has left the loop of processAllPdfs.
BatchCompleted == pc \in {"returned", "exited"} /\ summaries = 1

\* C1 (skip-before-invoke): a candidate whose output folder, named after
\* its document key, exists when the batch reaches it is never handed to the
\* converter in that run and is not counted Succeeded or Failed.
C1_SkipBeforeInvoke ==
  \A i \in Cands :
    atReach[i] = "present" =>
      /\ launches[i] = 0
      /\ outcome[i] \notin {"Succeeded", "Failed"}

\* C2 (idempotency): in a second run on an output tree in which the first
\* run left the folder of every document, no converter is launched, the
\* output tree stays as the first run left it, and once the batch has
\* completed every document is counted Skipped.
C2_SecondRunSkipsAll ==
  (run = 2 /\ \A i \in Cands : treeAtStart[DocKey(pdfFiles[i])].exists) =>
    /\ \A i \in Cands : launches[i] = 0
    /\ outTree = treeAtStart
    /\ BatchCompleted =>
         /\ successCount = 0
         /\ failCount = 0
         /\ \A i \in Cands : outcome[i] = "Skipped"

\* C3 (isolation on failure): when the attempt of a document has ended
\* Failed and no deletion call failed, the folder the converter wrote for
\* it is gone and every other folder is as it was when the attempt began.
C3_IsolationOnFailure ==
  (pc = "tally" /\ ~result /\ ~ioFailed[idx]) =>
    /\ wrote[idx] => ~DocFolder(idx).exists
    /\ \A f \in FolderNames \ {DocKey(pdfFiles[idx])} :
         outTree[f] = treeAtReach[f]

\* The candidates whose folder exists when the run starts.
HadFolder == {i \in Cands : treeAtStart[DocKey(pdfFiles[i])].exists}

\* The other candidates whose converter exits with a nonzero code.
MadeToFail == {i \in Cands \ HadFolder : closeCode[i] = "1"}

\* Every other candidate's converter exits nonzero, or exits 0 having
\* created the folder.
StubbedConverters ==
  \A i \in Cands \ HadFolder :
    \/ closeCode[i] = "1"
    \/ closeCode[i] = "0" /\ wrote[i]

\* C4 (aggregate accuracy): the counters always add up to the number of
\* candidates finished, and with S candidates that have a folder at the
\* start and F others made to fail, the summary reports Skipped = S,
\* Failed = F, Succeeded = N - S - F.
C4_AggregateAccuracy ==
  /\ pc \in {"loop", "processPdf", "awaitSpawn", "cleanup",
             "processMarkdownFiles", "replaceImagePaths", "tally"} =>
       /\ successCount + skipCount + failCount = idx - 1
       /\ \A i \in Cands : (outcome[i] # "Pending") <=> (i < idx)
  /\ (BatchCompleted /\ StubbedConverters) =>
       /\ skipCount = Cardinality(HadFolder)
       /\ failCount = Cardinality(MadeToFail)
       /\ successCount =
            Len(pdfFiles) - Cardinality(HadFolder) - Cardinality(MadeToFail)

\* C5 as stated (exit codes): the exit status is 1 exactly when fewer than
\* two arguments are given or the input directory does not exist.
C5_ExitCodes ==
  pc = "exited" =>
    (exitStatus = "1" <=> (argc < 2 \/ inputDir = "missing"))

\* C5 as amended: the exit status is 1 exactly when fewer than two arguments
\* are given; a missing input directory, as every run that gets through the
\* batch whatever the number of Failed documents, ends with status 0.
C5_ExitCodesAmended ==
  pc = "exited" => exitStatus = (IF argc < 2 THEN "1" ELSE "0")

\* C5 witness: a run with two arguments on a missing input directory has
\* exited.
C5_Witness ==
  pc = "exited" /\ argc = 2 /\ inputDir = "missing" /\ exitStatus = "0"

\* C6 (strict sequentiality): at most one converter process is in flight,
\* and when the loop reaches a candidate every earlier candidate's child has
\* closed or failed to launch, its promise is settled (or was never
\* created) and its outcome is counted.
C6_StrictlySequential ==
  /\ Cardinality({i \in Slots : child[i] = "running"}) <= 1
  /\ \A i, j \in Cands :
       (i < j /\ atReach[j] # "none") =>
         /\ child[i] \in {"none", "errored", "closed"}
         /\ promise[i] # "pending"
         /\ outcome[i] # "Pending"

\* C6 witness: the converter of the second candidate is in flight after the
\* converter of the first one was launched and has closed.
C6_Witness ==
  /\ Len(pdfFiles) = 2
  /\ launches[1] = 1
  /\ child[1] = "closed"
  /\ child[2] = "running"
  /\ wrote[2]

\* C7 (failure containment): a rejected or false spawnCommand makes its own
\* document Failed; no candidate is launched twice; and a run that got into
\* the loop leaves it only through the summary, with every candidate given
\* exactly one outcome.
C7_FailureContained ==
  /\ \A i \in Cands : launches[i] <= 1
  /\ \A i \in Cands :
       (i < idx /\ promise[i] \in {"rejected", "false"}) =>
         outcome[i] = "Failed"
  /\ (pc \in {"returned", "exited"} /\ Len(pdfFiles) > 0) =>
       /\ summaries = 1
       /\ idx = Len(pdfFiles) + 1
       /\ \A i \in Cands : outcome[i] # "Pending"
       /\ successCount + skipCount + failCount = Len(pdfFiles)

\* C7 witness: a batch has completed in which the first converter could not
\* be launched and the second candidate succeeded.
C7_Witness ==
  /\ BatchCompleted
  /\ Len(pdfFiles) = 2
  /\ promise[1] = "rejected"
  /\ outcome[1] = "Failed"
  /\ outcome[2] = "Succeeded"

\* C8 (executor resolution): a promise is settled at most once; it is true
\* exactly for a child that closed with code 0, false exactly for a child
\* that closed with another code or null, and rejected exactly for a launch
\* that failed, also after the close event that follows the error.
C8_ExecutorResolution ==
  \A i \in Slots :
    /\ settles[i] <= 1
    /\ (promise[i] \in {"true", "false", "rejected"}) <=> (settles[i] = 1)
    /\ (promise[i] = "true") <=> (closeCode[i] = "0")
    /\ (promise[i] = "false") <=> (closeCode[i] \in {"1", "null"})
    /\ (promise[i] = "rejected") <=>
         (child[i] = "errored" \/ closeCode[i] = SpawnErrno)

\* C8 witness: the close event of a failed launch has been delivered after
\* the error event rejected the promise.
C8_Witness ==
  \E i \in Slots :
    promise[i] = "rejected" /\ child[i] = "closed" /\ closeCode[i] = SpawnErrno

\* C9 (terminal state): when a run has completed, every document counted
\* Succeeded whose converter wrote its folder, and whose rewriting met no
\* read or write failure, has its output folder with every Markdown file
\* rewritten.
C9_TerminalState ==
  BatchCompleted =>
    \A i \in Cands :
      (outcome[i] = "Succeeded" /\ wrote[i] /\ ~ioFailed[i]) =>
        /\ DocFolder(i).exists
        /\ Rewritten(DocFolder(i))

C13_DocumentKeyConsistency ==
  /\ \A i \in Cands : outputFolderPath(i) = DocKey(pdfFiles[i])
  /\ \A i, j \in Cands :
       i # j => DocKey(pdfFiles[i]) # DocKey(pdfFiles[j])

\* C14 (best-effort steps never change the outcome): a converter that
\* exited 0 makes its document Succeeded, whatever processMarkdownFiles and
\* replaceImagePaths met, and the folder it wrote is still there; when the
\* attempt ends, every Markdown file of the folder that did not itself fail
\* has been rewritten; and a converter that did not exit 0, or did not
\* launch, makes its document Failed, and the loop goes on, also when the
\* deletion failed.
C14_BestEffortSteps ==
  /\ (pc = "tally" /\ closeCode[idx] = "0") =>
       /\ result
       /\ wrote[idx] => DocFolder(idx).exists
       /\ LET folder == outTree[outputFolderPath(idx)]
          IN  \A md \in MdFilesOf(folder) :
                md \notin mdFailed => folder.files[md] >= 1
  /\ (pc = "tally" /\ launches[idx] = 1 /\ closeCode[idx] # "0") => ~result
  /\ \A i \in Cands :
       (outcome[i] # "Pending" /\ launches[i] = 1) =>
         /\ (outcome[i] = "Succeeded") <=> (closeCode[i] = "0")
         /\ (outcome[i] = "Failed") <=> (closeCode[i] # "0")
         /\ i < idx

\* C14 witness: the first document Failed and its folder could not be
\* deleted; the loop went on, and the attempt of the second document has
\* ended successfully although the rewrite of one of its Markdown files
\* failed, the other Markdown file having been rewritten.
C14_Witness ==
  /\ idx = 2
  /\ outcome[1] = "Failed"
  /\ ioFailed[1]
  /\ DocFolder(1).exists
  /\ pc = "tally"
  /\ result
  /\ closeCode[idx] = "0"
  /\ LET folder == outTree[outputFolderPath(idx)]
     IN  /\ folder.exists
         /\ \E m1, m2 \in MdFilesOf(folder) :
              /\ m1 \in mdFailed
              /\ folder.files[m1] = 0
              /\ folder.files[m2] = 1

\* C19 (the two existence checks agree): when processPdf makes its own
\* existence check the folder is as absent as the loop found it, so
\* processPdf never returns through its skip branch; and a document is
\* counted Succeeded only if its converter was launched in this run and
\* closed with exit code 0.
C19_ChecksAgree ==
  /\ pc = "processPdf" =>
       /\ ~outTree[outputFolderPath(idx)].exists
       /\ outTree = treeAtReach
  /\ (pc = "tally" /\ result) =>
       launches[idx] = 1 /\ child[idx] = "closed" /\ closeCode[idx] = "0"
  /\ \A i \in Cands :
       outcome[i] = "Succeeded" =>
         launches[i] = 1 /\ child[i] = "closed" /\ closeCode[i] = "0"

\* C19 witness: processPdf is about to make its check for the second
\* candidate after the first one was launched, closed with code 0 and was
\* counted Succeeded.
C19_Witness ==
  /\ pc = "processPdf"
  /\ idx = 2
  /\ outcome[1] = "Succeeded"
  /\ launches[1] = 1
  /\ closeCode[1] = "0"

\* The folders whose content a step changes.
ChangedFolders == {f \in FolderNames : outTree'[f] # outTree[f]}

\* A step of the converter child: it writes its folder or it closes.
ConverterStep == wrote' # wrote \/ child' # child

\* The step leaves the folder in place and changes Markdown files only.
OverwritesMarkdownOnly(f) ==
  /\ outTree'[f].exists = outTree[f].exists
  /\ outTree'[f].complete = outTree[f].complete
  /\ DOMAIN outTree'[f].files = DOMAIN outTree[f].files
  /\ \A n \in DOMAIN outTree[f].files :
       outTree'[f].files[n] # outTree[f].files[n] => IsMd(n)

\* C16 (frame of the orchestrator's own filesystem effects): a step of the
\* orchestrator never changes the input directory; it creates no directory
\* but the output root; the only folder it changes is the one it addresses
\* for the current document, which existed before the step and is not the
\* folder of a candidate with another document key; that folder is either
\* deleted, after a converter that did not exit 0, and is then the folder
\* of no candidate whose converter wrote it and exited 0, or has Markdown
\* files directly inside it overwritten, after a converter that exited 0.
C16_OrchestratorFrame ==
  [][ /\ inputDir' = inputDir
      /\ listing' = listing
      /\ outRoot' # outRoot => (pc = "ensureOutputDir" /\ outRoot')
      /\ ~ConverterStep =>
           /\ ChangedFolders # {} => pc \in {"cleanup", "replaceImagePaths"}
           /\ \A f \in ChangedFolders :
                /\ f = outputFolderPath(idx)
                /\ \A j \in Cands :
                     DocKey(pdfFiles[j]) # DocKey(pdfFiles[idx]) =>
                       f # DocKey(pdfFiles[j])
                /\ outTree[f].exists
                /\ IF pc = "cleanup"
                   THEN /\ outTree'[f] = Absent
                        /\ closeCode[idx] # "0"
                        /\ \A j \in Cands :
                             (closeCode[j] = "0" /\ wrote[j]) =>
                               f # DocKey(pdfFiles[j])
                   ELSE OverwritesMarkdownOnly(f) /\ closeCode[idx] = "0"
    ]_vars

\* C16 witness: the first document's attempt has ended with its folder
\* deleted by the cleanup, and the orchestrator is rewriting the Markdown
\* files of the second document's folder, one of them already overwritten.
C16_Witness ==
  /\ idx = 2
  /\ outcome[1] = "Failed"
  /\ wrote[1]
  /\ ~DocFolder(1).exists
  /\ pc = "replaceImagePaths"
  /\ \E md \in MdFilesOf(DocFolder(2)) : DocFolder(2).files[md] = 1

\* C15 (interrupted-run resumption): in every run after one that was
\* terminated while the converter of document D had already written D's
\* folder, D gets no converter and no outcome but Skipped, and D's folder
\* stays as the run found it; the same holds for every document whose
\* folder a successful conversion had completed before the termination;
\* and a candidate whose folder is absent when the loop reaches it is not
\* skipped.
C15_InterruptedRunResumption ==
  killedDocs # {} =>
    \A i \in Cands :
      /\ (\/ pdfFiles[i] \in killedDocs
          \/ treeAtStart[DocKey(pdfFiles[i])].complete) =>
           /\ launches[i] = 0
           /\ outcome[i] \in {"Pending", "Skipped"}
           /\ DocFolder(i) = treeAtStart[DocKey(pdfFiles[i])]
           /\ BatchCompleted => outcome[i] = "Skipped"
      /\ atReach[i] = "absent" => outcome[i] # "Skipped"

\* A second pass over a text the rewriter changed changes it again: the
\* file names inside the URLs of the first pass are matched once more.
RewriterNotIdempotent ==
  \A t \in MdTexts, key \in FolderNames :
    replace(t, key) # t => replace(replace(t, key), key) # replace(t, key)

\* C18 (rewrite at most once across runs): whatever the runs before did,
\* failed and terminated runs included, no Markdown file under the output
\* root has been rewritten more than once since the converter wrote it; and
\* this is needed, because the rewriter is not idempotent.
C18_RewriteAtMostOnce ==
  /\ \A f \in FolderNames :
       \A md \in DOMAIN outTree[f].files : outTree[f].files[md] <= 1
  /\ RewriterNotIdempotent

\* C18 witness: a run after a terminated one has completed, skipping a
\* document whose Markdown file an earlier run had rewritten.
C18_Witness ==
  /\ run > 1
  /\ BatchCompleted
  /\ killedDocs # {}
  /\ \E i \in Cands :
       /\ outcome[i] = "Skipped"
       /\ \E md \in MdFilesOf(DocFolder(i)) : DocFolder(i).files[md] = 1

SetMin(S) == CHOOSE m \in S : \A k \in S : m <= k

\* The end of a page-image filename that starts at position i: the first
\* .jpeg that follows; 0 without one.
LazyMatchEnd(t, i) ==
  IF MatchEnds(t, i) = {} THEN 0 ELSE SetMin(MatchEnds(t, i))

\* The text with every page-image filename, from _page to the first .jpeg
\* that follows, replaced by its URL.
RECURSIVE RewriteEachFrom(_, _, _)
RewriteEachFrom(t, i, key) ==
  IF i > Len(t) THEN <<>>
  ELSE LET e == LazyMatchEnd(t, i)
       IN  IF e > 0
           THEN Replacement(key, SubSeq(t, i, e))
                  \o RewriteEachFrom(t, e + 1, key)
           ELSE <<t[i]>> \o RewriteEachFrom(t, i + 1, key)

\* C12 (rewrite correctness): the text replaceImagePaths writes back is the
\* text it read with every page-image filename, each one separately,
\* replaced by http://localhost:3000/<folderName>/<filename> and every
\* other character unchanged.
C12_RewriteCorrectness ==
  rwPc = "written" => content = RewriteEachFrom(original, 1, folderName)

\* The run has finished: the summary is logged and every candidate has one
\* of the three outcomes.
Finished ==
  /\ pc \in {"returned", "exited"}
  /\ summaries = 1
  /\ \A i \in Cands : outcome[i] \in {"Skipped", "Succeeded", "Failed"}

\* The summary line is logged at most once, and only after the outcome of
\* the last candidate was recorded.
SingleReport ==
  /\ summaries <= 1
  /\ summaries = 1 =>
       /\ pc \in {"returned", "exited"}
       /\ idx = Len(pdfFiles) + 1
       /\ \A i \in Cands : outcome[i] # "Pending"

\* While a converter has not closed, the run waits at its document and no
\* later document has been started.
BlockedWhileOpen ==
  \A i \in Slots :
    child[i] = "running" =>
      /\ pc = "awaitSpawn"
      /\ idx = i
      /\ promise[i] = "pending"
      /\ summaries = 0
      /\ \A j \in Cands :
           j > i => atReach[j] = "none" /\ launches[j] = 0
                      /\ outcome[j] = "Pending"

\* C17 as stated (termination and single report): every run that passes
\* the input-directory check eventually finishes with the summary logged
\* exactly once and every candidate in one outcome; the summary is never
\* logged before the last outcome; a converter that stays open keeps the
\* run at its document.
C17_TerminationSingleReport ==
  /\ [](SingleReport /\ BlockedWhileOpen)
  /\ (pc = "ensureOutputDir") ~> Finished

\* C17 as amended: the same for every run that finds at least one
\* candidate; a run whose input directory holds no PDF returns after the
\* listing without a summary line.
C17_TerminationWithCandidates ==
  /\ [](SingleReport /\ BlockedWhileOpen)
  /\ [](pc = "returned" => (summaries = 1 <=> Len(pdfFiles) > 0))
  /\ (pc = "loop") ~> Finished

\* C17 witness: a run over two candidates has finished, the first one
\* launched and Failed, the second one launched and Succeeded.
C17_Witness ==
  /\ Finished
  /\ Len(pdfFiles) = 2
  /\ launches[1] = 1
  /\ outcome[1] = "Failed"
  /\ launches[2] = 1
  /\ outcome[2] = "Succeeded"

\* The chunks written to the orchestrator's streams, in the order written.
ForwardedChunks == [k \in 1..Len(forwarded) |-> forwarded[k].chunk]

RECURSIVE OfStream(_, _)
OfStream(chunks, s) ==
  IF chunks = <<>> THEN <<>>
  ELSE IF Head(chunks).stream = s
       THEN <<Head(chunks)>> \o OfStream(Tail(chunks), s)
       ELSE OfStream(Tail(chunks), s)

IsPrefix(a, b) == Len(a) <= Len(b) /\ SubSeq(b, 1, Len(a)) = a

\* Number of positions of the sequence that hold the chunk.
Occurrences(chunks, c) == Cardinality({k \in 1..Len(chunks) : chunks[k] = c})

\* Every chunk is written to the orchestrator's stream of the same name,
\* and a chunk the child wrote is either still in its pipe or has been
\* forwarded, once.
ForwardedOnce ==
  /\ \A k \in 1..Len(forwarded) : forwarded[k].to = forwarded[k].chunk.stream
  /\ \A k \in 1..Len(emitted) :
       Occurrences(ForwardedChunks, emitted[k])
         + Occurrences(pipe[emitted[k].stream], emitted[k]) = 1
  /\ Len(forwarded) + Len(pipe["stdout"]) + Len(pipe["stderr"]) = Len(emitted)

\* C11 as stated (streaming correctness): every chunk is forwarded exactly
\* once to the corresponding stream, and the chunks are forwarded in the
\* order the child emitted them, across the two streams as well.
C11_StreamingInEmissionOrder ==
  /\ ForwardedOnce
  /\ \A p, q \in 1..Len(forwarded) :
       p < q => forwarded[p].chunk.n < forwarded[q].chunk.n

\* C11 as amended: every chunk is forwarded exactly once to the
\* corresponding stream, and the chunks of each stream are forwarded in the
\* order the child emitted them on that stream.
C11_StreamingPerStreamOrder ==
  /\ ForwardedOnce
  /\ \A s \in Streams :
       IsPrefix(OfStream(ForwardedChunks, s), OfStream(emitted, s))

\* C11 witness: the child wrote to stdout and then to stderr, and both
\* chunks have been forwarded, the stderr chunk first.
C11_Witness ==
  /\ Len(forwarded) = 2
  /\ forwarded[1].to = "stderr"
  /\ forwarded[2].to = "stdout"
  /\ forwarded[2].chunk.n < forwarded[1].chunk.n

\* C20 (output is flushed before the outcome): once spawnCommand's promise
\* is settled, and so when processPdf goes on to the cleanup or the
\* rewriting, every chunk the child wrote has been forwarded; the pipes
\* hold chunks of the current child only; and every forwarded chunk of a
\* document precedes every forwarded chunk of the next document.
C20_FlushedBeforeOutcome ==
  /\ (stPromise \in {"true", "false"} \/ stPc = "after") =>
       /\ \A s \in Streams : pipe[s] = <<>>
       /\ \A k \in 1..Len(emitted) :
            Occurrences(ForwardedChunks, emitted[k]) = 1
  /\ stPc = "after" => stPromise \in {"true", "false"}
  /\ \A s \in Streams :
       \A k \in 1..Len(pipe[s]) : pipe[s][k].doc = stDoc
  /\ \A p, q \in 1..Len(forwarded) :
       p < q => forwarded[p].chunk.doc <= forwarded[q].chunk.doc

\* C20 witness: processPdf has gone on after the second converter, each of
\* the two converters having written to both of its streams.
C20_Witness ==
  /\ stPc = "after"
  /\ stDoc = 2
  /\ \A d \in 1..2 :
       \A s \in Streams :
         \E k \in 1..Len(forwarded) :
           forwarded[k].chunk.doc = d /\ forwarded[k].to = s

=============================================================================
